---- MODULE Spec2Model ----
(***************************************************************************)
(* Super-trait collection of crates/hir-analysis/src/ty/constraint.rs.     *)
(*                                                                         *)
(* collect_super_traits is a memoized (salsa tracked) query with a cycle   *)
(* recovery function.  The model keeps the declared where-bounds of every  *)
(* trait, the memo table of the query, and the stack of active queries of  *)
(* the evaluator.  A nested call that re-enters an active query marks the  *)
(* frames from that query up to the top of the stack as participants of    *)
(* the cycle; each of them is unwound and its value is computed by         *)
(* recover_collect_super_traits with the participant set.                  *)
(***************************************************************************)
EXTENDS Integers, Sequences, FiniteSets, TLC

\* ------------------------------------------------------------------ bounds
NumTraits == 3      \* trait definitions of the program
MaxBounds == 2      \* where-predicates per trait declaration
MaxOdd == 1         \* predicates that are not a plain, lowerable Self bound

Traits == 1..NumTraits

VARIABLES
    decl,       \* decl[t]: the where-predicates of trait t, in declaration order
    memo,       \* memo[t]: <<>> or <<value>>, the memoized collect_super_traits(t)
    stack,      \* active collect_super_traits queries, innermost last
    pending,    \* TRUE: a nested call has returned to the top frame, read not yet reported
    ret,        \* <<>> or <<[trait, value, cached]>>: the latest value a call returned
    first,      \* first[t]: <<>> or <<value>>, the first value ever returned for t
    detected,   \* participant sets of the query cycles detected so far, in order
    recovered,  \* recovered[t]: how often recover_collect_super_traits ran for t
    out         \* the latest call of super_trait_insts, compute_super_assumptions
                \* or does_satisfy, with its arguments and result

vars == <<decl, memo, stack, pending, ret, first, detected, recovered, out>>

\* ------------------------------------------------------------- data model
\* A trait instance: a definition applied to type arguments.
TraitInst(d, a) == [def |-> d, args |-> a]

\* A where-predicate of a trait declaration.
\*   subject: "Self" (the Self type, no arguments), "SelfArgs", "Param";
\*            "Item" is a trait reference inside a nested item of the body,
\*            "Header" a bound on a type parameter in the generic parameter
\*            list of the header (trait A<T: B>)
\*   lower:   what lower_trait_ref answers for the trait reference of the bound:
\*            "ok" an instance, "err" diagnostics, "both" an instance and
\*            diagnostics, "none" neither
Pred(s, t, a, l) == [subject |-> s, trait |-> t, args |-> a, lower |-> l]

\* Every trait is declared with one type parameter, X.
TyParams(t) == <<"X">>

\* The bound Self: t<X>.
SelfBound(t) == Pred("Self", t, <<"X">>, "ok")

CyclicSuperTraits(span) == [kind |-> "CyclicSuperTraits", span |-> span]
LowerDiag(span) == [kind |-> "Lower", span |-> span]

SeqsUpTo(S, n) == UNION {[1..k -> S] : k \in 0..n}

\* lower_trait_ref: (Option<TraitInstId>, Vec<diag>) for the bound at position i.
lower_trait_ref(p, span) ==
    CASE p.lower = "ok"   -> [inst |-> <<TraitInst(p.trait, p.args)>>, diags |-> <<>>]
      [] p.lower = "err"  -> [inst |-> <<>>, diags |-> <<LowerDiag(span)>>]
      [] p.lower = "both" -> [inst |-> <<TraitInst(p.trait, p.args)>>,
                              diags |-> <<LowerDiag(span)>>]
      [] OTHER            -> [inst |-> <<>>, diags |-> <<>>]

\* ------------------------------------------------------------ the collector
visit_trait_ref_keeping_cyclic(c, p, span) ==
    LET lowered == lower_trait_ref(p, span) IN
    IF lowered.diags # <<>> THEN
        [c EXCEPT !.diags = c.diags \o lowered.diags]
    ELSE IF lowered.inst = <<>> THEN
        c
    ELSE IF lowered.inst[1].def \in c.cycle THEN
        [c EXCEPT !.diags = Append(c.diags, CyclicSuperTraits(span)),
                  !.super_traits = Append(c.super_traits, lowered.inst[1])]
    ELSE
        [c EXCEPT !.super_traits = Append(c.super_traits, lowered.inst[1])]

visit_trait_ref_cycle_first(c, p, span) ==
    LET lowered == lower_trait_ref(p, span) IN
    IF lowered.inst # <<>> /\ lowered.inst[1].def \in c.cycle THEN
        [c EXCEPT !.diags = Append(c.diags, CyclicSuperTraits(span))]
    ELSE IF lowered.diags # <<>> THEN
        [c EXCEPT !.diags = c.diags \o lowered.diags]
    ELSE IF lowered.inst = <<>> THEN
        c
    ELSE
        [c EXCEPT !.super_traits = Append(c.super_traits, lowered.inst[1])]

visit_trait_ref_prepending(c, p, span) ==
    LET lowered == lower_trait_ref(p, span) IN
    IF lowered.diags # <<>> THEN
        [c EXCEPT !.diags = c.diags \o lowered.diags]
    ELSE IF lowered.inst = <<>> THEN
        c
    ELSE IF lowered.inst[1].def \in c.cycle THEN
        [c EXCEPT !.diags = Append(c.diags, CyclicSuperTraits(span))]
    ELSE
        [c EXCEPT !.super_traits = <<lowered.inst[1]>> \o c.super_traits]

\* One visit of a trait reference by the collector whose state is c.
visit_trait_ref(c, p, span) ==
    LET lowered == lower_trait_ref(p, span) IN
    IF lowered.diags # <<>> THEN
        [c EXCEPT !.diags = c.diags \o lowered.diags]
    ELSE IF lowered.inst = <<>> THEN
        c
    ELSE IF lowered.inst[1].def \in c.cycle THEN
        [c EXCEPT !.diags = Append(c.diags, CyclicSuperTraits(span))]
    ELSE
        [c EXCEPT !.super_traits = Append(c.super_traits, lowered.inst[1])]

\* Only predicates on the Self type without arguments are walked.
visit_where_predicate(c, p, span) ==
    IF p.subject = "Self" THEN visit_trait_ref(c, p, span) ELSE c

\* Nested items of the trait body are not walked.
visit_item(c, item) == c

\* The walk of the generic parameter list is not overridden: the trait
\* reference of a bound in it is handed to visit_trait_ref as it is.
visit_generic_param(c, p, span) == visit_trait_ref(c, p, span)

SuperTraitCollector(t, cycle) ==
    [trait |-> t, super_traits |-> <<>>, diags |-> <<>>, cycle |-> cycle]

\* The walk of a trait: the nodes of its header, of its where-clause and of
\* its body, each handed to the visitor's method for its kind.
RECURSIVE visit_trait(_, _, _)
visit_trait(c, preds, i) ==
    IF i > Len(preds) THEN c
    ELSE visit_trait(
            CASE preds[i].subject = "Item"   -> visit_item(c, preds[i])
              [] preds[i].subject = "Header" -> visit_generic_param(c, preds[i], <<c.trait, i>>)
              [] OTHER -> visit_where_predicate(c, preds[i], <<c.trait, i>>),
            preds, i + 1)

\* finalize: the (super_traits, diags) pair of trait t given the known-cyclic set.
finalize(ds, t, cycle) ==
    LET c == visit_trait(SuperTraitCollector(t, cycle), ds[t], 1)
    IN  [insts |-> c.super_traits, diags |-> c.diags]

recover_collect_super_traits(ds, participants, t) == finalize(ds, t, participants)

\* ------------------------------------------------------------ the evaluator
Frame(t, v) == [trait |-> t, insts |-> v.insts, diags |-> v.diags, idx |-> 1, cycle |-> <<>>]

Top(stk) == stk[Len(stk)]
Pop(stk) == SubSeq(stk, 1, Len(stk) - 1)

OnStackTopOnly(stk, t) == stk # <<>> /\ stk[Len(stk)].trait = t

\* The query for t is active (claimed by the running evaluation).
OnStack(stk, t) == \E i \in 1..Len(stk) : stk[i].trait = t

HeadOfBottom(stk, t) == 1

\* Position of the first active query for t.
HeadOf(stk, t) == CHOOSE i \in 1..Len(stk) : stk[i].trait = t /\ \A j \in 1..(i - 1) : stk[j].trait # t

\* The participants of the cycle closed by a call to t: the active queries
\* from the one for t up to the top of the stack.
Participants(stk, t) == {stk[i].trait : i \in HeadOf(stk, t)..Len(stk)}

MarkCycleTopOnly(stk, t) ==
    [i \in 1..Len(stk) |->
        IF i = Len(stk) THEN [stk[i] EXCEPT !.cycle = <<Participants(stk, t)>>] ELSE stk[i]]

\* Every participant frame is marked with the cycle.
MarkCycle(stk, t) ==
    LET h == HeadOf(stk, t)
        ps == Participants(stk, t)
    IN  [i \in 1..Len(stk) |-> IF i >= h THEN [stk[i] EXCEPT !.cycle = <<ps>>] ELSE stk[i]]

\* cached: the value was served from the memo table without executing.
Returned(t, v, cached) == <<[trait |-> t, value |-> v, cached |-> cached]>>

MemoizeNothing(m, t, v) == m

\* The value of an executed query is stored in the memo table.
Memoize(m, t, v) == [m EXCEPT ![t] = <<v>>]

FetchRecomputed(ds, m, t) == finalize(ds, t, {})

\* A memoized query answers with the stored value.
Fetch(ds, m, t) == m[t][1]

Remember(f, t, v) == IF f[t] = <<>> THEN [f EXCEPT ![t] = <<v>>] ELSE f

\* The top frame (marked with a cycle) is unwound: its value is the one of
\* the recovery function, it is memoized and returned to the caller.
Recover(stk) ==
    LET f == Top(stk)
        v == recover_collect_super_traits(decl, f.cycle[1], f.trait)
    IN  /\ memo' = Memoize(memo, f.trait, v)
        /\ stack' = Pop(stk)
        /\ ret' = Returned(f.trait, v, FALSE)
        /\ first' = Remember(first, f.trait, v)
        /\ recovered' = [recovered EXCEPT ![f.trait] = @ + 1]
        /\ pending' = (Len(stk) > 1)

\* A caller outside any query asks for collect_super_traits(t).
Request(t) ==
    /\ stack = <<>>
    /\ ~pending
    /\ IF memo[t] # <<>> THEN
            /\ ret' = Returned(t, Fetch(decl, memo, t), TRUE)
            /\ UNCHANGED <<memo, stack, pending, first, detected, recovered>>
       ELSE
            /\ stack' = <<Frame(t, finalize(decl, t, {}))>>
            /\ UNCHANGED <<memo, pending, ret, first, detected, recovered>>
    /\ UNCHANGED <<decl, out>>

\* The loop of collect_super_traits calls the query for the next instance's
\* definition, which is already memoized.
CallMemoized ==
    /\ stack # <<>>
    /\ ~pending
    /\ LET f == Top(stack) IN
        /\ f.idx <= Len(f.insts)
        /\ memo[f.insts[f.idx].def] # <<>>
        /\ ret' = Returned(f.insts[f.idx].def, Fetch(decl, memo, f.insts[f.idx].def), TRUE)
        /\ pending' = TRUE
    /\ UNCHANGED <<decl, out, memo, stack, first, detected, recovered>>

\* ... which is neither memoized nor active: it starts executing.
CallFresh ==
    /\ stack # <<>>
    /\ ~pending
    /\ LET f == Top(stack) IN
        /\ f.idx <= Len(f.insts)
        /\ LET u == f.insts[f.idx].def IN
            /\ memo[u] = <<>>
            /\ ~OnStack(stack, u)
            /\ stack' = Append(stack, Frame(u, finalize(decl, u, {})))
    /\ UNCHANGED <<decl, out, memo, pending, ret, first, detected, recovered>>

\* ... which is active: a cycle.  The participants are marked and the cycle
\* is thrown; the top frame catches it and recovers.
CallCycle ==
    /\ stack # <<>>
    /\ ~pending
    /\ LET f == Top(stack) IN
        /\ f.idx <= Len(f.insts)
        /\ LET u == f.insts[f.idx].def IN
            /\ memo[u] = <<>>
            /\ OnStack(stack, u)
            /\ detected' = Append(detected, Participants(stack, u))
            /\ Recover(MarkCycle(stack, u))
    /\ UNCHANGED <<decl, out>>

\* The loop is over: the value of the normal path is memoized and returned.
Complete ==
    /\ stack # <<>>
    /\ ~pending
    /\ LET f == Top(stack)
           v == [insts |-> f.insts, diags |-> f.diags]
       IN
        /\ f.idx > Len(f.insts)
        /\ memo' = Memoize(memo, f.trait, v)
        /\ stack' = Pop(stack)
        /\ ret' = Returned(f.trait, v, FALSE)
        /\ first' = Remember(first, f.trait, v)
        /\ pending' = (Len(stack) > 1)
    /\ UNCHANGED <<decl, out, detected, recovered>>

\* The read of the returned value is reported to a frame that takes part in
\* a cycle: it unwinds and recovers.
ReadUnwind ==
    /\ pending
    /\ Top(stack).cycle # <<>>
    /\ Recover(stack)
    /\ UNCHANGED <<decl, out, detected>>

\* The read is reported to a frame outside any cycle: its loop goes on.
ReadContinue ==
    /\ pending
    /\ Top(stack).cycle = <<>>
    /\ stack' = [stack EXCEPT ![Len(stack)].idx = @ + 1]
    /\ pending' = FALSE
    /\ UNCHANGED <<decl, out, memo, ret, first, detected, recovered>>

\* ------------------------------------------------------------ specification
SelfBounds == {SelfBound(t) : t \in Traits}

PlainDecls == [Traits -> SeqsUpTo(SelfBounds, MaxBounds)]

Slots == Traits \X (1..MaxBounds)

OddShapes ==
    {<<"Self", "err">>, <<"Self", "none">>, <<"Self", "both">>,
     <<"Param", "ok">>, <<"SelfArgs", "ok">>, <<"Item", "ok">>}

\* The declarations g with the predicates at the slots of odd given shape sh.
WithOdd(g, odd, sh) ==
    [t \in Traits |->
        [i \in 1..Len(g[t]) |->
            IF <<t, i>> \in odd THEN Pred(sh[1], g[t][i].trait, g[t][i].args, sh[2]) ELSE g[t][i]]]

\* Nothing has been evaluated yet.
Fresh ==
    /\ memo = [t \in Traits |-> <<>>]
    /\ stack = <<>>
    /\ pending = FALSE
    /\ ret = <<>>
    /\ first = [t \in Traits |-> <<>>]
    /\ detected = <<>>
    /\ recovered = [t \in Traits |-> 0]
    /\ out = [op |-> "none"]

Init ==
    /\ \E g \in PlainDecls :
       \E odd \in {s \in SUBSET Slots : Cardinality(s) <= MaxOdd} :
       \E sh \in OddShapes :
            /\ \A s \in odd : s[2] <= Len(g[s[1]])
            /\ decl = WithOdd(g, odd, sh)
    /\ Fresh

\* The header of a trait is walked before its where-clause.
HeaderFirst(g) ==
    \A t \in Traits : \A i \in 1..Len(g[t]) :
        g[t][i].subject = "Header" => \A j \in 1..(i - 1) : g[t][j].subject = "Header"

\* Programs that may also bound a type parameter in the header of a trait.
InitHeader ==
    /\ \E g \in PlainDecls :
       \E odd \in {s \in SUBSET Slots : Cardinality(s) <= MaxOdd} :
       \E sh \in OddShapes \cup {<<"Header", "ok">>} :
            /\ \A s \in odd : s[2] <= Len(g[s[1]])
            /\ HeaderFirst(WithOdd(g, odd, sh))
            /\ decl = WithOdd(g, odd, sh)
    /\ Fresh

\* Programs whose predicates are all lowerable Self bounds.
InitPlain ==
    /\ decl \in PlainDecls
    /\ Fresh

Next ==
    \/ \E t \in Traits : Request(t)
    \/ CallMemoized
    \/ CallFresh
    \/ CallCycle
    \/ Complete
    \/ ReadUnwind
    \/ ReadContinue

Spec == Init /\ [][Next]_vars

SpecHeader == InitHeader /\ [][Next]_vars

\* The evaluator runs a started query to its end: no step of it waits.
Eval == CallMemoized \/ CallFresh \/ CallCycle \/ Complete \/ ReadUnwind \/ ReadContinue

FairSpec == InitPlain /\ [][Next]_vars /\ WF_vars(Eval)

\* Another run over the same declarations: a database without memoized
\* values, whose traits may be requested in another order.  first keeps the
\* values of the earlier runs.
NewRun ==
    /\ stack = <<>>
    /\ ~pending
    /\ \E t \in Traits : memo[t] # <<>>
    /\ memo' = [t \in Traits |-> <<>>]
    /\ ret' = <<>>
    /\ detected' = <<>>
    /\ recovered' = [t \in Traits |-> 0]
    /\ UNCHANGED <<decl, out, stack, pending, first>>

NextRuns ==
    \/ Next
    \/ NewRun

SpecRuns == InitPlain /\ [][NextRuns]_vars

\* --------------------------------------------- instances and predicate lists
\* The type identifiers: the parameter X of the traits, a type variable Y
\* that is no parameter of the traits (a variable of the scope of a caller
\* or of a declaration, such as its Self type), and a concrete type.
Tys == {"X", "Y", "Int"}
TyVars == {"X", "Y"}

\* Rewrite: a type identifier under a substitution table.
Rewrite(ty, subst) == IF ty \in DOMAIN subst THEN subst[ty] ELSE ty

\* TraitInstId::apply_subst: every type argument is rewritten.
apply_subst(inst, subst) ==
    [inst EXCEPT !.args = [k \in 1..Len(inst.args) |-> Rewrite(inst.args[k], subst)]]

\* TraitInstId::subst_table: the parameters of the definition mapped to the
\* arguments of the instance.
subst_table(inst) ==
    LET ps == TyParams(inst.def)
    IN  [ty \in {ps[k] : k \in 1..Len(ps)} |->
            inst.args[CHOOSE k \in 1..Len(ps) : ps[k] = ty]]

super_trait_insts_skipping_first(ds, m, trait_inst) ==
    LET super_traits == Fetch(ds, m, trait_inst.def).insts
        subst == subst_table(trait_inst)
    IN  [i \in 1..(Len(super_traits) - 1) |-> apply_subst(super_traits[i + 1], subst)]

super_trait_insts_unsubstituted(ds, m, trait_inst) == Fetch(ds, m, trait_inst.def).insts

\* super_trait_insts: the super traits of the definition under the
\* substitution of the instance, in order.
super_trait_insts(ds, m, trait_inst) ==
    LET trait_def == trait_inst.def
        super_traits == Fetch(ds, m, trait_def).insts
        subst == subst_table(trait_inst)
    IN  [i \in 1..Len(super_traits) |-> apply_subst(super_traits[i], subst)]

PredicateList(ps, g) == [predicates |-> ps, ingot |-> g]
PredicateId(ty, tr) == [ty |-> ty, trait_ |-> tr]

compute_super_assumptions_all_keys(ds, m, assumptions) ==
    PredicateList(
        [ty \in DOMAIN assumptions.predicates |->
            UNION {{super_trait_insts(ds, m, inst)[i] :
                        i \in 1..Len(super_trait_insts(ds, m, inst))} :
                   inst \in UNION {assumptions.predicates[k] :
                                      k \in DOMAIN assumptions.predicates}}],
        assumptions.ingot)

compute_super_assumptions_growing(ds, m, assumptions) ==
    PredicateList(
        [ty \in DOMAIN assumptions.predicates |->
            assumptions.predicates[ty] \cup
            UNION {{super_trait_insts(ds, m, inst)[i] :
                        i \in 1..Len(super_trait_insts(ds, m, inst))} :
                   inst \in assumptions.predicates[ty]}],
        assumptions.ingot)

\* compute_super_assumptions: every key of the list with the super trait
\* instances of its instances, in a list of the same ingot.
compute_super_assumptions(ds, m, assumptions) ==
    LET ingot == assumptions.ingot
        super_assumptions ==
            [ty \in DOMAIN assumptions.predicates |->
                UNION {{super_trait_insts(ds, m, inst)[i] :
                            i \in 1..Len(super_trait_insts(ds, m, inst))} :
                       inst \in assumptions.predicates[ty]}]
    IN  PredicateList(super_assumptions, ingot)

does_satisfy_any_key(list, predicate) ==
    \E ty \in DOMAIN list.predicates : predicate.trait_ \in list.predicates[ty]

\* PredicateListId::does_satisfy
does_satisfy(list, predicate) ==
    LET trait_ == predicate.trait_
        ty == predicate.ty
    IN  IF ty \notin DOMAIN list.predicates THEN FALSE
        ELSE trait_ \in list.predicates[ty]

\* ------------------------------------------------- inputs of the pure queries
MaxKeys == 2        \* keys of a predicate list
MaxInsts == 2       \* instances in the set of one key
NumIngots == 2

InstU == {TraitInst(t, <<a>>) : t \in Traits, a \in Tys}
AssumInsts == {TraitInst(t, <<a>>) : t \in Traits, a \in {"Y", "Int"}}
KeyTys == {"Y", "Int"}
InstSets == {s \in SUBSET AssumInsts : Cardinality(s) <= MaxInsts}
Lists ==
    {PredicateList(ps, g) :
        ps \in UNION {[D -> InstSets] : D \in {d \in SUBSET KeyTys : Cardinality(d) <= MaxKeys}},
        g \in 1..NumIngots}
Substs == UNION {[D -> Tys] : D \in SUBSET TyVars}

SuperTraitInsts ==
    /\ out.op = "none"
    /\ \E inst \in InstU :
        out' = [op |-> "super_trait_insts", inst |-> inst,
                result |-> super_trait_insts(decl, memo, inst)]
    /\ UNCHANGED <<decl, memo, stack, pending, ret, first, detected, recovered>>

\* super_trait_insts of a substituted instance, next to the substituted
\* super_trait_insts of the instance.
SubstituteAndExpand ==
    /\ out.op = "none"
    /\ \E inst \in InstU : \E s \in Substs :
        out' = [op |-> "substitute", inst |-> inst, subst |-> s,
                of_applied |-> super_trait_insts(decl, memo, apply_subst(inst, s)),
                applied_to |-> [i \in 1..Len(super_trait_insts(decl, memo, inst)) |->
                                   apply_subst(super_trait_insts(decl, memo, inst)[i], s)]]
    /\ UNCHANGED <<decl, memo, stack, pending, ret, first, detected, recovered>>

ComputeSuperAssumptions ==
    /\ out.op = "none"
    /\ \E list \in Lists :
        out' = [op |-> "compute_super_assumptions", list |-> list,
                result |-> compute_super_assumptions(decl, memo, list)]
    /\ UNCHANGED <<decl, memo, stack, pending, ret, first, detected, recovered>>

DoesSatisfy ==
    /\ out.op = "none"
    /\ \E list \in Lists : \E ty \in KeyTys : \E tr \in AssumInsts :
        out' = [op |-> "does_satisfy", list |-> list, predicate |-> PredicateId(ty, tr),
                result |-> does_satisfy(list, PredicateId(ty, tr))]
    /\ UNCHANGED <<decl, memo, stack, pending, ret, first, detected, recovered>>

\* does_satisfy on a list, next to does_satisfy on its super assumptions.
SatisfyExpanded ==
    /\ out.op = "none"
    /\ \E list \in Lists : \E ty \in KeyTys : \E tr \in AssumInsts :
        out' = [op |-> "satisfy_expanded", list |-> list, predicate |-> PredicateId(ty, tr),
                before |-> does_satisfy(list, PredicateId(ty, tr)),
                after |-> does_satisfy(compute_super_assumptions(decl, memo, list),
                                       PredicateId(ty, tr))]
    /\ UNCHANGED <<decl, memo, stack, pending, ret, first, detected, recovered>>

\* The caller takes the result.
TakeResult ==
    /\ out.op # "none"
    /\ out' = [op |-> "none"]
    /\ UNCHANGED <<decl, memo, stack, pending, ret, first, detected, recovered>>

\* The bounds Self: u<a> a trait may declare on traits declared after it;
\* the argument is the parameter of the trait, another type variable or a
\* concrete type.
LaterBounds(t) == {Pred("Self", u, <<a>>, "ok") : u \in {v \in Traits : v > t}, a \in Tys}

\* An acyclic program all of whose traits have been evaluated: every memoized
\* value is the one of the normal path.
InitExpand ==
    /\ decl \in {d \in [Traits -> SeqsUpTo(LaterBounds(1), MaxBounds)] :
                    \A t \in Traits : \A i \in 1..Len(d[t]) : d[t][i].trait > t}
    /\ memo = [t \in Traits |-> <<finalize(decl, t, {})>>]
    /\ stack = <<>>
    /\ pending = FALSE
    /\ ret = <<>>
    /\ first = memo
    /\ detected = <<>>
    /\ recovered = [t \in Traits |-> 0]
    /\ out = [op |-> "none"]

NextExpand ==
    \/ SuperTraitInsts
    \/ SubstituteAndExpand
    \/ ComputeSuperAssumptions
    \/ DoesSatisfy
    \/ SatisfyExpanded
    \/ TakeResult

SpecExpand == InitExpand /\ [][NextExpand]_vars

\* ------------------------------------------------- one run of the collector
\* The shapes of the nodes of a trait body.
NodeShapes ==
    {<<"Self", "ok">>, <<"Self", "err">>, <<"Self", "none">>, <<"Self", "both">>,
     <<"Param", "ok">>, <<"SelfArgs", "ok">>, <<"Item", "ok">>}

Nodes == {Pred(sh[1], t, <<"X">>, sh[2]) : sh \in NodeShapes, t \in Traits}

\* A program of which one trait declares up to MaxBounds nodes of any shape.
InitCollect ==
    /\ \E t \in Traits : \E ns \in SeqsUpTo(Nodes, MaxBounds) :
            decl = [u \in Traits |-> IF u = t THEN ns ELSE <<>>]
    /\ Fresh

\* SuperTraitCollector::new(db, t, cycle).finalize() for a known-cyclic set.
Collect ==
    /\ out.op = "none"
    /\ \E t \in Traits : \E cycle \in SUBSET Traits :
        out' = [op |-> "finalize", trait |-> t, cycle |-> cycle,
                result |-> finalize(decl, t, cycle)]
    /\ UNCHANGED <<decl, memo, stack, pending, ret, first, detected, recovered>>

NextCollect ==
    \/ Collect
    \/ TakeResult

SpecCollect == InitCollect /\ [][NextCollect]_vars

MaxPlain == 1       \* Self bounds of each trait next to the one of any shape

\* A program of which one trait declares up to MaxBounds nodes of any shape
\* and the others up to MaxPlain lowerable Self bounds.
InitLowering ==
    /\ \E t \in Traits :
       \E ns \in SeqsUpTo(Nodes, MaxBounds) :
       \E g \in [Traits \ {t} -> SeqsUpTo(SelfBounds, MaxPlain)] :
            decl = [u \in Traits |-> IF u = t THEN ns ELSE g[u]]
    /\ Fresh

\* The queries are evaluated; between two requests the collector may be run
\* on its own for any known-cyclic set.
NextLowering ==
    \/ out.op = "none" /\ \E t \in Traits : Request(t)
    \/ out.op = "none" /\ CallMemoized
    \/ out.op = "none" /\ CallFresh
    \/ out.op = "none" /\ CallCycle
    \/ out.op = "none" /\ Complete
    \/ out.op = "none" /\ ReadUnwind
    \/ out.op = "none" /\ ReadContinue
    \/ stack = <<>> /\ Collect
    \/ TakeResult

SpecLowering == InitLowering /\ [][NextLowering]_vars

\* ------------------------------------------------------------ graph notions
\* The declared super-trait graph: t requires u when t declares a bound
\* Self: u that lowers to an instance.
DeclGraph ==
    [t \in Traits |->
        {decl[t][i].trait : i \in {j \in 1..Len(decl[t]) :
            decl[t][j].subject = "Self" /\ decl[t][j].lower = "ok"}}]

\* The finalized relation: t is followed by the definitions of the instances
\* of its memoized super-trait sequence.
MemoGraph ==
    [t \in Traits |->
        IF memo[t] = <<>> THEN {}
        ELSE {memo[t][1].insts[i].def : i \in 1..Len(memo[t][1].insts)}]

RECURSIVE Grow(_, _, _)
Grow(G, S, n) == IF n = 0 THEN S ELSE Grow(G, S \cup UNION {G[u] : u \in S}, n - 1)

\* The traits reachable from t along one or more edges of G.
Requires(G, t) == Grow(G, G[t], NumTraits)

OnCycle(G, t) == t \in Requires(G, t)

SameGroup(G, t, u) == t = u \/ (u \in Requires(G, t) /\ t \in Requires(G, u))

AllDone == stack = <<>> /\ \A t \in Traits : memo[t] # <<>>

HasCyclicDiag(v) == \E i \in 1..Len(v.diags) : v.diags[i].kind = "CyclicSuperTraits"

\* The instances of the bounds Self: u of t that lower, in declaration order.
RECURSIVE LoweredSelfBounds(_, _)
LoweredSelfBounds(t, n) ==
    IF n = 0 THEN <<>>
    ELSE LET p == decl[t][n] IN
         IF p.subject = "Self" /\ p.lower = "ok"
         THEN Append(LoweredSelfBounds(t, n - 1), TraitInst(p.trait, p.args))
         ELSE LoweredSelfBounds(t, n - 1)

\* ------------------------------------------------------------------ claims

\* C1: once every query has completed, no trait is reachable from itself
\* along the returned super-trait sequences.
C1_FinalizedAcyclic == AllDone => \A t \in Traits : ~OnCycle(MemoGraph, t)

\* C2: the chain of nested calls is bounded by the number of traits and
\* every started request returns with its trait memoized.
C2_Termination ==
    /\ [](Len(stack) <= NumTraits)
    /\ [][(stack # <<>> /\ stack' = <<>>) =>
            (memo'[stack[1].trait] # <<>> /\ ret'[1].trait = stack[1].trait)]_vars
    /\ (stack # <<>>) ~> (stack = <<>>)

C2_Witness ==
    /\ stack = <<>>
    /\ Len(detected) >= 2
    /\ \E t \in Traits : recovered[t] = 1 /\ Cardinality(DeclGraph[t]) = 2

\* C3: the result of a trait that lies on a cycle of the declared graph
\* carries a CyclicSuperTraits diagnostic.
C3_CycleReported ==
    \A t \in Traits :
        (memo[t] # <<>> /\ OnCycle(DeclGraph, t)) => HasCyclicDiag(memo[t][1])

\* C4: a trait from which no declared cycle is reachable gets exactly its
\* lowered Self bounds, in declaration order, and no CyclicSuperTraits.
C4_AcyclicExact ==
    \A t \in Traits :
        (/\ memo[t] # <<>>
         /\ ~OnCycle(DeclGraph, t)
         /\ \A u \in Requires(DeclGraph, t) : ~OnCycle(DeclGraph, u))
        => /\ memo[t][1].insts = LoweredSelfBounds(t, Len(decl[t]))
           /\ ~HasCyclicDiag(memo[t][1])
           /\ (decl[t] = <<>> => memo[t][1] = [insts |-> <<>>, diags |-> <<>>])

\* Trait 1 has Self: 2 and Self: 3, neither of which has bounds.
C4_Witness ==
    /\ decl[1] = <<SelfBound(2), SelfBound(3)>>
    /\ decl[2] = <<>>
    /\ decl[3] = <<>>
    /\ memo[1] = <<[insts |-> <<TraitInst(2, <<"X">>), TraitInst(3, <<"X">>)>>, diags |-> <<>>]>>
    /\ memo[2] = <<[insts |-> <<>>, diags |-> <<>>]>>

\* C5: every value returned for a trait is the value first returned for it.
C5_RepeatDeterminism ==
    ret # <<>> => (first[ret[1].trait] # <<>> /\ ret[1].value = first[ret[1].trait][1])

\* A recovered trait is answered from the memo table after another cycle
\* was recovered in between.
C5_Witness ==
    /\ ret # <<>>
    /\ ret[1].cached
    /\ recovered[ret[1].trait] = 1
    /\ Len(detected) >= 2
    /\ ret[1].trait \in detected[1]

\* C6: does_satisfy answers TRUE exactly when the type of the predicate is a
\* key of the list and the set of that key contains the trait instance.
C6_SatisfiesCorrect ==
    out.op = "does_satisfy" =>
        (out.result <=>
            (/\ out.predicate.ty \in DOMAIN out.list.predicates
             /\ out.predicate.trait_ \in out.list.predicates[out.predicate.ty]))

\* The type is a key whose set lacks the instance, which another key holds.
C6_Witness ==
    /\ out.op = "does_satisfy"
    /\ out.predicate.ty \in DOMAIN out.list.predicates
    /\ out.predicate.trait_ \notin out.list.predicates[out.predicate.ty]
    /\ \E ty \in DOMAIN out.list.predicates : out.predicate.trait_ \in out.list.predicates[ty]
    /\ out.result = FALSE

\* C7: super_trait_insts(I) is, position by position, the sequence of I's
\* definition with the parameter of the definition replaced by I's argument.
C7_InstanceExpansion ==
    out.op = "super_trait_insts" =>
        LET sup == memo[out.inst.def][1].insts IN
        /\ Len(out.result) = Len(sup)
        /\ \A i \in 1..Len(sup) :
            /\ out.result[i].def = sup[i].def
            /\ Len(out.result[i].args) = Len(sup[i].args)
            /\ \A k \in 1..Len(sup[i].args) :
                out.result[i].args[k] =
                    IF sup[i].args[k] = "X" THEN out.inst.args[1] ELSE sup[i].args[k]
        /\ (decl[1] = <<SelfBound(2)>> /\ out.inst = TraitInst(1, <<"Int">>))
            => out.result = <<TraitInst(2, <<"Int">>)>>

\* Trait 1<X> has Self: 2<X>; super_trait_insts(1<Int>) = [2<Int>].
C7_Witness ==
    /\ out.op = "super_trait_insts"
    /\ decl[1] = <<SelfBound(2)>>
    /\ out.inst = TraitInst(1, <<"Int">>)
    /\ out.result = <<TraitInst(2, <<"Int">>)>>

FixesOuterArgs(d, s) ==
    \A i \in 1..Len(memo[d][1].insts) :
        \A k \in 1..Len(memo[d][1].insts[i].args) :
            LET a == memo[d][1].insts[i].args[k] IN
            (\A j \in 1..Len(TyParams(d)) : TyParams(d)[j] # a) => Rewrite(a, s) = a

SuperInstsOf(insts) ==
    UNION {{super_trait_insts(decl, memo, tr)[i] :
                i \in 1..Len(super_trait_insts(decl, memo, tr))} : tr \in insts}

\* C9: the result has the ingot and the keys of its input, every key maps to
\* the union of the super_trait_insts of its instances, and only the directly
\* declared super traits appear.
C9_AssumptionShape ==
    out.op = "compute_super_assumptions" =>
        /\ out.result.ingot = out.list.ingot
        /\ DOMAIN out.result.predicates = DOMAIN out.list.predicates
        /\ \A ty \in DOMAIN out.list.predicates :
            /\ out.result.predicates[ty] = SuperInstsOf(out.list.predicates[ty])
            /\ {e.def : e \in out.result.predicates[ty]} =
                    UNION {DeclGraph[tr.def] : tr \in out.list.predicates[ty]}

\* 1 requires 2 and 2 requires 3; Int |-> {1<Int>} yields Int |-> {2<Int>},
\* and the key Y with the empty set stays.
C9_Witness ==
    /\ out.op = "compute_super_assumptions"
    /\ decl[1] = <<SelfBound(2)>>
    /\ decl[2] = <<SelfBound(3)>>
    /\ DOMAIN out.list.predicates = {"Int", "Y"}
    /\ out.list.predicates["Int"] = {TraitInst(1, <<"Int">>)}
    /\ out.list.predicates["Y"] = {}
    /\ out.result.predicates["Int"] = {TraitInst(2, <<"Int">>)}
    /\ out.result.predicates["Y"] = {}

\* C10 (as amended): recovery runs at most once per trait and the detected
\* cycles share no participant; one strongly-connected group may see several.
C10_OncePerTrait ==
    /\ \A t \in Traits : recovered[t] <= 1
    /\ \A i, j \in 1..Len(detected) : i # j => detected[i] \cap detected[j] = {}

\* Two cycles were detected and recovered within one strongly-connected group.
C10_Witness ==
    /\ stack = <<>>
    /\ Len(detected) = 2
    /\ \E t \in detected[1] : \E u \in detected[2] : SameGroup(DeclGraph, t, u)

\* C10 (original): no strongly-connected group of the declared graph sees a
\* second cycle detection.
C10_OncePerGroup ==
    \A i, j \in 1..Len(detected) :
        i # j => \A t \in detected[i] : \A u \in detected[j] : ~SameGroup(DeclGraph, t, u)

\* C11: a trait with a result has a result for the definition of every
\* instance of its returned sequence.
C11_ForcedEvaluation ==
    \A t \in Traits :
        memo[t] # <<>> => \A u \in MemoGraph[t] : memo[u] # <<>>

\* The positions of the bounds Self: u of t that lower without diagnostics.
Qualifying(t) ==
    {i \in 1..Len(decl[t]) : decl[t][i].subject = "Self" /\ decl[t][i].lower = "ok"}

\* The positions of the bounds Self: u of t whose lowering reports diagnostics.
Failing(t) ==
    {i \in 1..Len(decl[t]) :
        decl[t][i].subject = "Self" /\ decl[t][i].lower \in {"err", "both"}}

CountOf(seq, x) == Cardinality({i \in 1..Len(seq) : seq[i] = x})

CountKind(seq, kind) == Cardinality({i \in 1..Len(seq) : seq[i].kind = kind})

\* The instances of the qualifying bounds of t outside K, in declared order.
RECURSIVE Entries(_, _, _)
Entries(t, K, n) ==
    IF n = 0 THEN <<>>
    ELSE IF n \in Qualifying(t) /\ decl[t][n].trait \notin K
         THEN Append(Entries(t, K, n - 1), TraitInst(decl[t][n].trait, decl[t][n].args))
         ELSE Entries(t, K, n - 1)

\* The lowering diagnostics of the failing bounds of t, in declared order.
RECURSIVE LoweringDiags(_, _)
LoweringDiags(t, n) ==
    IF n = 0 THEN <<>>
    ELSE IF n \in Failing(t)
         THEN Append(LoweringDiags(t, n - 1), LowerDiag(<<t, n>>))
         ELSE LoweringDiags(t, n - 1)

IsLower(d) == d.kind = "Lower"

\* C12: in one run of the collector for t with known-cyclic set K, a
\* qualifying bound outside K gives one entry (entries in declared order), a
\* qualifying bound in K gives exactly one CyclicSuperTraits diagnostic at
\* that bound and no entry, and nothing else gives a CyclicSuperTraits
\* diagnostic; with K empty there is none.
C12_EntryOrDiagnostic ==
    out.op = "finalize" =>
        LET t == out.trait
            K == out.cycle
            r == out.result
        IN  /\ r.insts = Entries(t, K, Len(decl[t]))
            /\ \A i \in 1..Len(decl[t]) :
                    CountOf(r.diags, CyclicSuperTraits(<<t, i>>)) =
                        IF i \in Qualifying(t) /\ decl[t][i].trait \in K THEN 1 ELSE 0
            /\ Len(r.insts) + CountKind(r.diags, "CyclicSuperTraits")
                    = Cardinality(Qualifying(t))
            /\ (K = {} => ~HasCyclicDiag(r))

\* One qualifying bound in the known-cyclic set and one outside it.
C12_Witness ==
    /\ out.op = "finalize"
    /\ \E i, j \in Qualifying(out.trait) :
            /\ decl[out.trait][i].trait \in out.cycle
            /\ decl[out.trait][j].trait \notin out.cycle
    /\ Len(out.result.insts) = 1
    /\ HasCyclicDiag(out.result)

InSomeCycle(t) == \E k \in 1..Len(detected) : t \in detected[k]

\* The known-cyclic set the memoized value of t was collected with.
KnownCyclic(t) ==
    IF InSomeCycle(t) THEN detected[CHOOSE k \in 1..Len(detected) : t \in detected[k]]
    ELSE {}

\* The result r of the collector for t with known-cyclic set K: a failing
\* bound adds no entry and no CyclicSuperTraits diagnostic, also when its
\* trait is in K; the lowering diagnostics are in r once, in declared order,
\* and the bounds after a failing one are collected as usual.
FailingSkipped(t, K, r) ==
    /\ SelectSeq(r.diags, IsLower) = LoweringDiags(t, Len(decl[t]))
    /\ \A i \in Failing(t) :
            /\ CountOf(r.diags, CyclicSuperTraits(<<t, i>>)) = 0
            /\ CountOf(r.diags, LowerDiag(<<t, i>>)) = 1
    /\ Len(r.insts) = Cardinality({i \in Qualifying(t) : decl[t][i].trait \notin K})
    /\ \A i \in Failing(t) : \A j \in Qualifying(t) :
            (j > i /\ decl[t][j].trait \notin K) =>
                \E k \in 1..Len(r.insts) :
                    r.insts[k] = TraitInst(decl[t][j].trait, decl[t][j].args)

\* Every result of the collector at hand: the one of a run on its own, the
\* memoized ones and the ones the active queries iterate over.
FailingSkippedEverywhere ==
    /\ out.op = "finalize" => FailingSkipped(out.trait, out.cycle, out.result)
    /\ \A t \in Traits : memo[t] # <<>> => FailingSkipped(t, KnownCyclic(t), memo[t][1])
    /\ \A k \in 1..Len(stack) :
            FailingSkipped(stack[k].trait, {},
                           [insts |-> stack[k].insts, diags |-> stack[k].diags])

\* C13 as stated: failing bounds are skipped with their lowering diagnostics
\* only, and the trait a failing bound names is not evaluated by a nested
\* call of the declaring trait and is in no query cycle with it.
C13_FailedTraitNotEvaluated ==
    /\ FailingSkippedEverywhere
    /\ \A k \in 1..(Len(stack) - 1) : \A i \in Failing(stack[k].trait) :
            stack[k + 1].trait # decl[stack[k].trait][i].trait
    /\ \A k \in 1..Len(detected) : \A t \in detected[k] : \A i \in Failing(t) :
            decl[t][i].trait \notin detected[k]

\* C13: failing bounds are skipped with their lowering diagnostics only; a
\* failing bound starts no nested call and is no link of a query cycle:
\* every nested call is the one for the current entry of the caller, the
\* entries are the qualifying bounds, every participant of a cycle has a
\* qualifying bound on a participant, and a trait all of whose Self bounds
\* fail calls nothing and is in no cycle.
C13_LoweringFailure ==
    /\ FailingSkippedEverywhere
    /\ \A k \in 1..Len(stack) :
            stack[k].insts = Entries(stack[k].trait, {}, Len(decl[stack[k].trait]))
    /\ \A k \in 1..(Len(stack) - 1) :
            /\ stack[k].idx <= Len(stack[k].insts)
            /\ stack[k + 1].trait = stack[k].insts[stack[k].idx].def
    /\ \A k \in 1..Len(detected) : \A t \in detected[k] :
            \E i \in Qualifying(t) : decl[t][i].trait \in detected[k]
    /\ \A t \in Traits :
        (Qualifying(t) = {} /\ Failing(t) # {}) =>
            /\ recovered[t] = 0
            /\ ~InSomeCycle(t)
            /\ \A k \in 1..Len(stack) : stack[k].trait = t => k = Len(stack)

\* Trait t has a failing bound on u, which lowers to an instance all the
\* same, and a qualifying bound on w; u requires t.  Both have been
\* evaluated without a cycle, and the collector run for t with u known
\* cyclic gives the lowering diagnostic only.
C13_Witness ==
    /\ out.op = "finalize"
    /\ Len(decl[out.trait]) = 2
    /\ 1 \in Failing(out.trait)
    /\ decl[out.trait][1].lower = "both"
    /\ decl[out.trait][1].trait \in out.cycle
    /\ decl[out.trait][1].trait # out.trait
    /\ 2 \in Qualifying(out.trait)
    /\ Len(out.result.insts) = 1
    /\ out.result.diags = <<LowerDiag(<<out.trait, 1>>)>>
    /\ memo[out.trait] = <<out.result>>
    /\ memo[decl[out.trait][1].trait] # <<>>
    /\ out.trait \in MemoGraph[decl[out.trait][1].trait]
    /\ detected = <<>>

\* The positions of the nodes of t that are no bound on Self without
\* arguments: bounds on other subjects, in the where-clause or in the
\* header, and references inside nested items.
NonBounds(t) == {i \in 1..Len(decl[t]) : decl[t][i].subject # "Self"}

C17_NoFalseCycleReports ==
    /\ \A t \in Traits :
        memo[t] # <<>> =>
            \A j \in 1..Len(memo[t][1].diags) :
                LET d == memo[t][1].diags[j] IN
                d.kind = "CyclicSuperTraits" =>
                    /\ d.span[1] = t
                    /\ d.span[2] \in Qualifying(t)
                    /\ t \in Requires(DeclGraph, decl[t][d.span[2]].trait)
    /\ \A t \in Traits :
        (recovered[t] > 0 \/ InSomeCycle(t)) => OnCycle(DeclGraph, t)
    /\ \A k \in 1..Len(detected) : \A t, u \in detected[k] : SameGroup(DeclGraph, t, u)
    /\ \A t \in Traits :
        (memo[t] # <<>> /\ ~OnCycle(DeclGraph, t)) =>
            /\ memo[t][1].insts = LoweredSelfBounds(t, Len(decl[t]))
            /\ ~HasCyclicDiag(memo[t][1])

\* A trait on no cycle that requires a trait of a cyclic group; everything
\* has been evaluated, starting from the trait outside the group.
C17_Witness ==
    /\ AllDone
    /\ \E t, u \in Traits :
        /\ ~OnCycle(DeclGraph, t)
        /\ u \in DeclGraph[t]
        /\ OnCycle(DeclGraph, u)
        /\ HasCyclicDiag(memo[u][1])
        /\ recovered[u] = 1
        /\ recovered[t] = 0
        /\ memo[t][1].insts = LoweredSelfBounds(t, Len(decl[t]))
        /\ memo[t][1].diags = <<>>
        /\ first[u] # <<>>
        /\ \A w \in Traits : w # t => w \in detected[1]

\* C15 as stated: a predicate the list satisfies is satisfied by the super
\* assumptions of the list.
C15_ExpansionKeeps ==
    out.op = "satisfy_expanded" => (out.before => out.after)

\* The instance e of a memoized super-trait sequence, seen from instance inst.
SuperOf(e, inst) ==
    TraitInst(e.def, [k \in 1..Len(e.args) |->
                        IF e.args[k] = "X" THEN inst.args[1] ELSE e.args[k]])

\* C15: the super assumptions of a list satisfy (ty, tr) exactly when ty is
\* a key of the list and tr is a super-trait instance of an instance the
\* list holds for ty; the facts of the list itself are not carried over.
C15_ExpansionReplaces ==
    out.op = "satisfy_expanded" =>
        LET L == out.list.predicates
            P == out.predicate
        IN  out.after <=>
                /\ P.ty \in DOMAIN L
                /\ \E inst \in L[P.ty] :
                   \E i \in 1..Len(memo[inst.def][1].insts) :
                        P.trait_ = SuperOf(memo[inst.def][1].insts[i], inst)

\* A predicate the list satisfies and its super assumptions do not, while
\* the key holds an instance with a super trait.
C15_Witness ==
    /\ out.op = "satisfy_expanded"
    /\ out.before
    /\ ~out.after
    /\ \E inst \in out.list.predicates[out.predicate.ty] :
            memo[inst.def][1].insts # <<>>

\* C16: the value memoized for a trait is the one every earlier run over the
\* same declarations gave it, whatever the order of the requests.
C16_OrderIndependence ==
    \A t \in Traits : memo[t] # <<>> => memo[t] = first[t]

\* A later run entered at a trait no earlier run evaluated: a trait of a
\* cycle has its value again, another one evaluated before is still active.
C16_Witness ==
    /\ stack # <<>>
    /\ first[stack[1].trait] = <<>>
    /\ \E t, u \in Traits :
        /\ first[t] # <<>>
        /\ memo[t] = <<>>
        /\ OnStack(stack, t)
        /\ memo[u] # <<>>
        /\ HasCyclicDiag(memo[u][1])
        /\ memo[u] = first[u]

====
